---- MODULE Spec2Model ----
(***************************************************************************)
(* Model of fpcalc-song-detection: correlation.py (bit similarity, offset  *)
(* sweep, best offset, match decision, the window scan) and main.py (the   *)
(* song list with its timestamps).                                         *)
(*                                                                         *)
(* Representation.                                                         *)
(*  - A fingerprint frame is a 32-bit unsigned integer.  It is kept as the *)
(*    set of the positions (0..31) of its 1 bits, bit i weighing 2^i: the  *)
(*    model checker's integers are 32-bit signed and cannot hold it.       *)
(*  - A correlation score is the exact rational <<num, den>> of the float  *)
(*    the code computes (covariance / float(n) / 32 = num / den with       *)
(*    den = 32 * n).  Python's None is the empty tuple.                    *)
(*  - A list is a sequence; Python index i is sequence index i + 1.        *)
(***************************************************************************)
EXTENDS Integers, Sequences, FiniteSets, TLC

VARIABLES
    \* ---- the scan (correlate) ----
    pc,                 \* position in correlate: "window" (line 176), "refs" (line
                        \* 186), "match" (line 196), "done" (returned), "aborted"
                        \* (left by an exception); "off" when correlate is not run
    duration,           \* get_audio_duration(source_file)
    fingerprints,       \* the reference files: sequence of <<path, fingerprint>>
    offset,             \* the window offset of the loop at line 176
    source_fingerprint, \* the fingerprint of the current window
    ref_i,              \* index of the next reference of the loop at line 186
    found_songs,        \* the result list
    corr,               \* the last score list (line 193)
    corr_scores,        \* the last zipped (score, offset) list (line 195)
    max_corr,           \* the last <<max_corr_index, max_corr_offset>> (line 197)
    last,               \* history: the step correlate took last
    visited,            \* history: the window offsets the loop has taken
    requests,           \* history: per visited window, what its request returned
    \* ---- the pure functions, applied to drawn inputs ----
    fx, fy,             \* two fingerprints
    fspan, fstep,       \* span and step of a sweep
    op,                 \* the function applied last ("none" before)
    res,                \* its result
    \* ---- is_match on drawn pairs ----
    m_pairs, m_threshold, m_k, m_d, m_res,
    \* ---- make_songlist ----
    s_found,            \* the argument found_songs: <<song_name, correlation, offset>>
    s_i,                \* index of the next entry of the loop at line 21 (0: not called)
    s_last,             \* last_song: None or <<song_name>>
    s_songlist          \* songlist, a sequence of lines [time, song_name] (and the
                        \* offset the line was rendered from, for the claims)

scanVars == <<pc, duration, fingerprints, offset, source_fingerprint, ref_i,
              found_songs, corr, corr_scores, max_corr, last, visited, requests>>
pureVars == <<fx, fy, fspan, fstep, op, res>>
matchVars == <<m_pairs, m_threshold, m_k, m_d, m_res>>
songVars == <<s_found, s_i, s_last, s_songlist>>
vars == <<scanVars, pureVars, matchVars, songVars>>

----------------------------------------------------------------------------
(* Program constants (correlation.py, module level and correlate). *)

sample_time == 500
span == 150
step == 1
min_overlap == 20
\* the local "step = 10" of correlate, which shadows the module's step
correlate_step == 10

None == <<>>

Min(a, b) == IF a <= b THEN a ELSE b

----------------------------------------------------------------------------
(* Frames: a 32-bit unsigned integer is the set of the positions of its    *)
(* 1 bits.                                                                 *)

BitPositions == 0..31

\* p ^ q
xor(p, q) == (p \ q) \cup (q \ p)

\* bin(n).count("1")
bit_count(n) == Cardinality(n)

\* 32 - bin(p ^ q).count("1") for two frames
frame_agreement(p, q) == 32 - bit_count(xor(p, q))

----------------------------------------------------------------------------
(* Python list slicing. *)

\* l[n:]
SliceFrom(l, n) == IF n >= Len(l) THEN <<>> ELSE SubSeq(l, n + 1, Len(l))
\* l[:n]
SliceTo(l, n) == IF n >= Len(l) THEN l ELSE SubSeq(l, 1, n)

\* arange losing its last element when stp does not divide stop - start
arange_rounded_down(start, stop, stp) ==
    IF stop <= start THEN <<>>
    ELSE [i \in 1..((stop - start) \div stp) |-> start + (i - 1) * stp]

\* numpy.arange(start, stop, stp) for stp >= 1: start, start+stp, ... < stop
arange(start, stop, stp) ==
    IF stop <= start THEN <<>>
    ELSE [i \in 1..(((stop - start) + stp - 1) \div stp) |-> start + (i - 1) * stp]

----------------------------------------------------------------------------
(* correlation.py: correlation, cross_correlation, compare *)

RECURSIVE covariance_loop(_, _, _, _)
\* the loop of lines 88-90 over the indices lo..hi (1-based): the sum of the
\* frames' agreements, added up by halves to keep the evaluation shallow
covariance_loop(listx, listy, lo, hi) ==
    IF lo > hi THEN 0
    ELSE IF lo = hi THEN frame_agreement(listx[lo], listy[lo])
    ELSE LET mid == (lo + hi) \div 2
         IN  covariance_loop(listx, listy, lo, mid)
             + covariance_loop(listx, listy, mid + 1, hi)

\* lines 79-82: correlation raises on an empty list
correlation_raises(listx, listy) == Len(listx) = 0 \/ Len(listy) = 0

\* correlation dividing by the length listx had before the truncation
correlation_untruncated_length(listx, listy) ==
    LET x == IF Len(listx) > Len(listy) THEN SliceTo(listx, Len(listy)) ELSE listx
        y == IF Len(listx) < Len(listy) THEN SliceTo(listy, Len(listx)) ELSE listy
    IN  <<covariance_loop(x, y, 1, Len(x)), 32 * Len(listx)>>

\* lines 83-93: the value correlation returns when it does not raise
correlation(listx, listy) ==
    LET x == IF Len(listx) > Len(listy) THEN SliceTo(listx, Len(listy)) ELSE listx
        y == IF Len(listx) < Len(listy) THEN SliceTo(listy, Len(listx)) ELSE listy
    IN  <<covariance_loop(x, y, 1, Len(x)), 32 * Len(x)>>

\* cross_correlation refusing an overlap of exactly min_overlap
cross_correlation_strict_overlap(listx, listy, off) ==
    LET x1 == IF off > 0 THEN SliceFrom(listx, off) ELSE listx
        y1 == IF off > 0 THEN SliceTo(listy, Len(x1))
              ELSE IF off < 0 THEN SliceFrom(listy, -off) ELSE listy
        x2 == IF off < 0 THEN SliceTo(x1, Len(y1)) ELSE x1
    IN  IF Min(Len(x2), Len(y1)) <= min_overlap THEN None
        ELSE correlation(x2, y1)

cross_correlation(listx, listy, off) ==
    LET x1 == IF off > 0 THEN SliceFrom(listx, off) ELSE listx
        y1 == IF off > 0 THEN SliceTo(listy, Len(x1))
              ELSE IF off < 0 THEN SliceFrom(listy, -off) ELSE listy
        x2 == IF off < 0 THEN SliceTo(x1, Len(y1)) ELSE x1
    IN  IF Min(Len(x2), Len(y1)) < min_overlap THEN None
        ELSE correlation(x2, y1)

\* lines 113-118: compare raises when the span exceeds the shorter list
compare_raises(listx, listy, spn) == spn > Min(Len(listx), Len(listy))

\* lines 119-122: the list compare returns when it does not raise
compare(listx, listy, spn, stp) ==
    LET offs == arange(-spn, spn + 1, stp)
    IN  [i \in 1..Len(offs) |-> cross_correlation(listx, listy, offs[i])]

----------------------------------------------------------------------------
(* Scores: <<num, den>> stands for num / den, den > 0. *)

\* a > b on two present scores
score_gt(a, b) == a[1] * b[2] > b[1] * a[2]
\* c >= t
score_ge(c, t) == c[1] * t[2] >= t[1] * c[2]

----------------------------------------------------------------------------
(* correlation.py: max_index, get_max_corr *)

RECURSIVE max_index_loop(_, _, _, _)
\* the loop of lines 128-131 at Python index i, with the running maximum
max_index_loop(listx, i, mx_index, mx_value) ==
    IF i >= Len(listx) THEN mx_index
    ELSE IF score_gt(listx[i + 1], mx_value)
         THEN max_index_loop(listx, i + 1, i, listx[i + 1])
         ELSE max_index_loop(listx, i + 1, mx_index, mx_value)

\* max_index of a non-empty list of present scores (Python index, from 0)
max_index(listx) == max_index_loop(listx, 0, 0, listx[1])

\* get_max_corr reads the module's span and step, not those of the sweep
get_max_corr(c) ==
    LET max_corr_index == max_index(c)
    IN  <<max_corr_index, -span + max_corr_index * step>>

----------------------------------------------------------------------------
(* correlation.py: is_match *)

\* "c >= threshold" at line 153 raises TypeError when a score is None
raises_TypeError(cs) == \E i \in 1..Len(cs) : cs[i][1] = None

\* the list comprehension of line 153
high_corrs_of(cs, threshold) ==
    SelectSeq(cs, LAMBDA p : score_ge(p[1], threshold))

RECURSIVE insert_by_offset(_, _)
\* p put after every entry of the sorted list l whose offset is <= p's
insert_by_offset(l, p) ==
    IF l = <<>> THEN <<p>>
    ELSE IF l[Len(l)][2] <= p[2] THEN Append(l, p)
         ELSE Append(insert_by_offset(SubSeq(l, 1, Len(l) - 1), p), l[Len(l)])

RECURSIVE sort_by_offset(_)
\* list.sort(key=lambda x: x[1]): stable, ascending by offset
sort_by_offset(l) ==
    IF l = <<>> THEN <<>>
    ELSE insert_by_offset(sort_by_offset(SubSeq(l, 1, Len(l) - 1)), l[Len(l)])

RECURSIVE cluster_loop_by_neighbour(_, _, _, _)
\* the inner loop measuring each entry from the previous member of the
\* cluster instead of from the anchor
cluster_loop_by_neighbour(offsets, i, j, max_offset_deviation) ==
    IF j > Len(offsets) THEN 0
    ELSE IF offsets[j] - offsets[j - 1] <= max_offset_deviation
         THEN 1 + cluster_loop_by_neighbour(offsets, i, j + 1, max_offset_deviation)
         ELSE 0

RECURSIVE cluster_loop(_, _, _, _)
\* the inner loop of lines 161-165: how many entries from index j on join the
\* cluster anchored at index i before the first one that does not
cluster_loop(offsets, i, j, max_offset_deviation) ==
    IF j > Len(offsets) THEN 0
    ELSE IF offsets[j] - offsets[i] <= max_offset_deviation
         THEN 1 + cluster_loop(offsets, i, j + 1, max_offset_deviation)
         ELSE 0

RECURSIVE anchor_loop_strict(_, _, _, _)
\* the outer loop asking for more than min_consistent_offsets members
anchor_loop_strict(offsets, i, min_consistent_offsets, max_offset_deviation) ==
    IF i > Len(offsets) THEN FALSE
    ELSE IF 1 + cluster_loop(offsets, i, i + 1, max_offset_deviation)
              > min_consistent_offsets
         THEN TRUE
         ELSE anchor_loop_strict(offsets, i + 1, min_consistent_offsets,
                                 max_offset_deviation)

RECURSIVE anchor_loop(_, _, _, _)
\* the outer loop of lines 159-167 from index i on
anchor_loop(offsets, i, min_consistent_offsets, max_offset_deviation) ==
    IF i > Len(offsets) THEN FALSE
    ELSE IF 1 + cluster_loop(offsets, i, i + 1, max_offset_deviation)
              >= min_consistent_offsets
         THEN TRUE
         ELSE anchor_loop(offsets, i + 1, min_consistent_offsets, max_offset_deviation)

\* is_match on pairs whose scores are all present
is_match(cs, threshold, min_consistent_offsets, max_offset_deviation) ==
    LET high_corrs == high_corrs_of(cs, threshold)
    IN  IF Len(high_corrs) < min_consistent_offsets THEN FALSE
        ELSE LET sorted == sort_by_offset(high_corrs)
                 offsets == [i \in 1..Len(sorted) |-> sorted[i][2]]
             IN  anchor_loop(offsets, 1, min_consistent_offsets, max_offset_deviation)

----------------------------------------------------------------------------
(* correlate, lines 193-195: the sweep of one (window, reference) pair and  *)
(* the offsets rebuilt for it, zipped.                                      *)

sweep_offsets(span_to_use, stp) == arange(-span_to_use, span_to_use + 1, stp)

\* zip(corr, offsets): as long as the shorter of the two
zip(c, offsets) ==
    [i \in 1..Min(Len(c), Len(offsets)) |-> <<c[i], offsets[i]>>]

----------------------------------------------------------------------------
(* Inputs of the pure functions. *)

MaxLen == 30
MaxSpan == 24

\* 0, 0xFFFFFFFF, 0xAAAAAAAA, 0x0000FFFF, 0x00FF00FF, 1, 0x80000000, 0xFF0000FF
Alphabet ==
    << {}, BitPositions, {2 * i + 1 : i \in 0..15}, 0..15,
       (0..7) \cup (16..23), {0}, {31}, (0..7) \cup (24..31) >>

\* a fingerprint of n frames drawn from Alphabet
Gen(n, a, b) ==
    [i \in 1..n |-> Alphabet[((a * i + (i * i) \div b) % Len(Alphabet)) + 1]]

\* l with its laziness removed: the same sequence, as an explicit tuple
Tuple(l) == SubSeq(l, 1, Len(l))

PureFPs ==
    { <<>>, Gen(1, 0, 1), Gen(1, 1, 1), Gen(4, 0, 1), Gen(19, 1, 3),
      Gen(20, 1, 3), Gen(20, 2, 5), Gen(21, 1, 3), Gen(25, 1, 2),
      Gen(25, 4, 1000), Gen(MaxLen, 4, 1000), Gen(MaxLen, 1, 3) }

Spans == {0, 3, 20, 21, MaxSpan}
Steps == {step, 3, 7, correlate_step}

NoRes == [raised |-> FALSE, score |-> None, off |-> 0, profile |-> <<>>,
          pairs |-> <<>>, max |-> <<>>]

----------------------------------------------------------------------------
(* The pure functions applied to drawn inputs. *)

ApplyCorrelation ==
    /\ op = "none"
    /\ op' = "correlation"
    /\ res' = IF correlation_raises(fx, fy)
              THEN [NoRes EXCEPT !.raised = TRUE]
              ELSE [NoRes EXCEPT !.score = correlation(fx, fy)]
    /\ UNCHANGED <<fx, fy, fspan, fstep, scanVars, matchVars, songVars>>

ApplyCrossCorrelation ==
    /\ op = "none"
    /\ \E o \in {-fspan, 0, fspan} :
          res' = [NoRes EXCEPT !.off = o, !.score = cross_correlation(fx, fy, o)]
    /\ op' = "cross_correlation"
    /\ UNCHANGED <<fx, fy, fspan, fstep, scanVars, matchVars, songVars>>

\* compare, then the offsets and the zip of correlate's lines 194-195
ApplyCompare ==
    /\ op = "none"
    /\ op' = "compare"
    /\ res' = IF compare_raises(fx, fy, fspan)
              THEN [NoRes EXCEPT !.raised = TRUE]
              ELSE LET c == compare(fx, fy, fspan, fstep)
                   IN  [NoRes EXCEPT !.profile = c,
                                     !.pairs = zip(c, sweep_offsets(fspan, fstep))]
    /\ UNCHANGED <<fx, fy, fspan, fstep, scanVars, matchVars, songVars>>

\* get_max_corr on the score list of the sweep; "value > max_value" at line
\* 129 raises TypeError on a None
ApplyGetMaxCorr ==
    /\ op = "compare"
    /\ ~res.raised
    /\ op' = "get_max_corr"
    /\ res' = IF raises_TypeError(res.pairs)
              THEN [res EXCEPT !.raised = TRUE]
              ELSE [res EXCEPT !.max = get_max_corr(res.profile)]
    /\ UNCHANGED <<fx, fy, fspan, fstep, scanVars, matchVars, songVars>>

----------------------------------------------------------------------------
(* The parts of the state a specification does not use stay at rest. *)

NoMatchRes == [done |-> FALSE, value |-> FALSE]

ScanAtRest ==
    /\ pc = "off" /\ duration = 0 /\ fingerprints = <<>> /\ offset = 0
    /\ source_fingerprint = <<>> /\ ref_i = 0 /\ found_songs = <<>>
    /\ corr = <<>> /\ corr_scores = <<>> /\ max_corr = <<>> /\ last = "off"
    /\ visited = <<>> /\ requests = <<>>

PureAtRest ==
    /\ fx = <<>> /\ fy = <<>> /\ fspan = 0 /\ fstep = 1
    /\ op = "off" /\ res = NoRes

MatchAtRest ==
    /\ m_pairs = <<>> /\ m_threshold = <<0, 1>> /\ m_k = 0 /\ m_d = 0
    /\ m_res = NoMatchRes

SongsAtRest ==
    /\ s_found = <<>> /\ s_i = 0 /\ s_last = None /\ s_songlist = <<>>

----------------------------------------------------------------------------
(* Specification of the pure functions: correlation, cross_correlation,    *)
(* compare and get_max_corr on every drawn input.                          *)

InitSweep ==
    /\ fx \in PureFPs /\ fy \in PureFPs
    /\ fspan \in Spans /\ fstep \in Steps
    /\ op = "none" /\ res = NoRes
    /\ ScanAtRest /\ MatchAtRest /\ SongsAtRest

NextSweep ==
    \/ ApplyCorrelation
    \/ ApplyCrossCorrelation
    \/ ApplyCompare
    \/ ApplyGetMaxCorr

SpecSweep == InitSweep /\ [][NextSweep]_vars

----------------------------------------------------------------------------
(* Claims about the pure functions (SpecSweep). *)

\* the bits on which the first n frames of x and y agree
AgreeingBits(x, y, n) ==
    Cardinality({ib \in (1..n) \X BitPositions :
                    (ib[2] \in x[ib[1]]) <=> (ib[2] \in y[ib[1]])})

\* the offset the sweep of span fspan and step fstep computes entry i (from 1) at
SweepOffset(i) == -fspan + (i - 1) * fstep

\* the first Python index of a maximum of the present scores c
FirstMaxIndex(c) ==
    CHOOSE i \in 0..(Len(c) - 1) :
        /\ \A j \in 1..Len(c) : ~score_gt(c[j], c[i + 1])
        /\ \A j \in 1..i : score_gt(c[i + 1], c[j])

\* C7: similarity(x, y) of two non-empty fingerprints is the number of
\* agreeing bits of their first n = min(len) frames over 32 * n: the longer
\* input's tail does not matter, the result lies in [0, 1], is symmetric, and
\* is 1 exactly when the first n frames are identical; with an empty input
\* the call fails.
C7_Similarity ==
    op = "correlation" =>
        IF Len(fx) = 0 \/ Len(fy) = 0 THEN res.raised
        ELSE LET n == Min(Len(fx), Len(fy))
             IN  /\ ~res.raised
                 /\ res.score = <<AgreeingBits(fx, fy, n), 32 * n>>
                 /\ res.score = correlation(SliceTo(fx, n), SliceTo(fy, n))
                 /\ res.score = correlation(fy, fx)
                 /\ 0 <= res.score[1] /\ res.score[1] <= res.score[2]
                 /\ (res.score[1] = res.score[2])
                        <=> (\A i \in 1..n : fx[i] = fy[i])

\* inputs of different lengths, the longer first, scoring strictly between 0 and 1
C7_Witness ==
    /\ op = "correlation" /\ ~res.raised
    /\ Len(fx) > Len(fy) /\ Len(fy) > 1
    /\ 0 < res.score[1] /\ res.score[1] < res.score[2]

\* C5: for span <= min(len(x), len(y)) the sweep returns floor(2*span/step)+1
\* entries, entry i being the shifted similarity at offset -span + i*step,
\* offsets never above +span; the offsets rebuilt and zipped by the scan have
\* the same length and pair each score with the offset it was computed at.
C5_Sweep ==
    (op = "compare" /\ fspan <= Min(Len(fx), Len(fy))) =>
        /\ ~res.raised
        /\ Len(res.profile) = (2 * fspan) \div fstep + 1
        /\ Len(res.pairs) = Len(res.profile)
        /\ res.pairs[1][2] = -fspan
        /\ \A i \in 1..(Len(res.pairs) - 1) : res.pairs[i][2] < res.pairs[i + 1][2]
        /\ \A i \in 1..Len(res.profile) :
              /\ res.profile[i] = cross_correlation(fx, fy, SweepOffset(i))
              /\ SweepOffset(i) <= fspan
              /\ res.pairs[i] = <<res.profile[i], SweepOffset(i)>>

\* a sweep whose step does not divide 2*span, with present and absent scores
C5_Witness ==
    /\ op = "compare" /\ ~res.raised
    /\ (2 * fspan) % fstep # 0
    /\ Len(res.profile) >= 3
    /\ \E i \in 1..Len(res.profile) : res.profile[i] = None
    /\ \E i \in 1..Len(res.profile) : res.profile[i] # None

\* C2: get_max_corr on the score list of a sweep returns the first index of
\* the maximum score and the offset the sweep pairs with that index,
\* -span + index * step for the span and step of that sweep.
C2_BestOffset ==
    (op = "get_max_corr" /\ ~res.raised) =>
        /\ res.max[1] = FirstMaxIndex(res.profile)
        /\ res.max[2] = res.pairs[res.max[1] + 1][2]
        /\ res.max[2] = -fspan + res.max[1] * fstep

\* C6 as stated: for all non-empty x and y, shifted_similarity(x, y, 0) is
\* similarity(x, y).
C6_ZeroShiftOriginal ==
    (op = "cross_correlation" /\ res.off = 0 /\ Len(fx) > 0 /\ Len(fy) > 0) =>
        res.score = correlation(fx, fy)

\* C6 amended: shifted_similarity(x, y, 0) is similarity(x, y) when the shorter
\* of x and y has at least min_overlap frames, and absent when x and y are
\* non-empty and the shorter has fewer.
C6_ZeroShift ==
    (op = "cross_correlation" /\ res.off = 0 /\ Len(fx) > 0 /\ Len(fy) > 0) =>
        IF Min(Len(fx), Len(fy)) >= min_overlap
        THEN res.score = correlation(fx, fy)
        ELSE res.score = None

\* a zero shift of two inputs of different lengths, the shorter of exactly
\* min_overlap frames
C6_Witness ==
    /\ op = "cross_correlation" /\ res.off = 0
    /\ Min(Len(fx), Len(fy)) = min_overlap /\ Len(fx) # Len(fy)
    /\ res.score # None /\ res.score[1] < res.score[2]

----------------------------------------------------------------------------
(* Specification of is_match on drawn (score, offset) pairs. *)

MaxPairs == 3

\* 0.5, 0.6, 0.8
MatchScores == { <<1, 2>>, <<3, 5>>, <<4, 5>> }
MatchOffsets == {0, 4, 5, 9}
\* 0.60 (correlate, line 196) and 0.75 (the default, line 139)
Thresholds == { <<3, 5>>, <<3, 4>> }
\* max_offset_deviation: 0 and the value 5 of lines 139 and 196
Deviations == {0, 5}

PairLists ==
    UNION { [1..n -> MatchScores \X MatchOffsets] : n \in 0..MaxPairs }

InitMatch ==
    /\ m_pairs \in PairLists
    /\ m_threshold \in Thresholds
    /\ m_k \in 1..MaxPairs
    /\ m_d \in Deviations
    /\ m_res = NoMatchRes
    /\ ScanAtRest /\ PureAtRest /\ SongsAtRest

ApplyIsMatch ==
    /\ ~m_res.done
    /\ m_res' = [done |-> TRUE,
                 value |-> is_match(m_pairs, m_threshold, m_k, m_d)]
    /\ UNCHANGED <<m_pairs, m_threshold, m_k, m_d, scanVars, pureVars, songVars>>

NextMatch == ApplyIsMatch

SpecMatch == InitMatch /\ [][NextMatch]_vars

\* the indices of the pairs of m_pairs whose score meets the threshold
HighIndices == {i \in 1..Len(m_pairs) : score_ge(m_pairs[i][1], m_threshold)}

\* the high pairs whose offset lies in [a, a + m_d]
HighWithin(a) ==
    {j \in HighIndices : a <= m_pairs[j][2] /\ m_pairs[j][2] <= a + m_d}

\* C1: is_match returns true exactly when some pair with score >= threshold
\* has an offset a such that at least k pairs with score >= threshold have
\* offsets in [a, a + d]; it returns false when fewer than k scores meet the
\* threshold, and for high offsets 0, 4, 9 with d = 5 and k = 3.
C1_AnchorClustering ==
    m_res.done =>
        /\ m_res.value
              <=> (\E i \in HighIndices :
                      Cardinality(HighWithin(m_pairs[i][2])) >= m_k)
        /\ Cardinality(HighIndices) < m_k => ~m_res.value
        /\ ( /\ m_d = 5 /\ m_k = 3
             /\ Cardinality(HighIndices) = 3
             /\ {m_pairs[i][2] : i \in HighIndices} = {0, 4, 9} ) => ~m_res.value

\* high offsets 9, 0, 4 (unsorted) with d = 5 and k = 3: 4 is within 5 of 0
\* and 9 within 5 of 4, yet no anchor gathers three
C1_Witness ==
    /\ m_res.done /\ ~m_res.value
    /\ m_d = 5 /\ m_k = 3
    /\ Len(m_pairs) = 3 /\ Cardinality(HighIndices) = 3
    /\ m_pairs[1][2] = 9 /\ m_pairs[2][2] = 0 /\ m_pairs[3][2] = 4

----------------------------------------------------------------------------
(* Strings: a sequence of tokens (characters, or a file name part that the  *)
(* code handles as a whole).                                                *)

\* s.replace(t, '') for a token t
replace(s, t) == SelectSeq(s, LAMBDA tok : tok # t)

DigitChars == <<"0", "1", "2", "3", "4", "5", "6", "7", "8", "9">>

RECURSIVE str(_)
\* str(n) for n >= 0
str(n) ==
    IF n < 10 THEN <<DigitChars[n + 1]>>
    ELSE Append(str(n \div 10), DigitChars[(n % 10) + 1])

RECURSIVE zfill(_, _)
\* s.zfill(width) for an unsigned number string
zfill(s, width) == IF Len(s) >= width THEN s ELSE zfill(<<"0">> \o s, width)

----------------------------------------------------------------------------
(* main.py: get_days_hours_minutes_seconds_from_timedelta, make_songlist *)

\* datetime.timedelta(seconds=n) for n >= 0: <<days, seconds>>
timedelta(n) == <<n \div 86400, n % 86400>>

get_days_hours_minutes_seconds_from_timedelta(td) ==
    <<td[1], td[2] \div 3600, (td[2] \div 60) % 60, td[2] % 60>>

\* lines 27-35: the time string of an offset in seconds
render_time(off) ==
    LET dhms == get_days_hours_minutes_seconds_from_timedelta(timedelta(off))
        t0 == zfill(str(dhms[4]), 2)
        t1 == IF dhms[3] > 0 THEN zfill(str(dhms[3]), 2) \o <<":">> \o t0 ELSE t0
        t2 == IF dhms[2] > 0 THEN zfill(str(dhms[2]), 2) \o <<":">> \o t1 ELSE t1
    IN  IF dhms[1] > 0 THEN zfill(str(dhms[1]), 2) \o <<":">> \o t2 ELSE t2

MaxSongs == 2

SongNames == { <<"a">>, <<"a", ".mp3">>, <<"b">> }
\* offsets as correlate produces them: multiples of its step
SongOffsets == {0, 10, 60, 600, 3600, 3610, 3660, 86400, 86460}

SongEntries == {<<n, <<100, 1>>, o>> : n \in SongNames, o \in SongOffsets}

\* found_songs as correlate returns it: by non-decreasing offset
SongLists ==
    { l \in UNION { [1..n -> SongEntries] : n \in 0..MaxSongs } :
        \A i \in 1..(Len(l) - 1) : l[i][3] <= l[i + 1][3] }

InitSongs ==
    /\ s_found \in SongLists
    /\ s_i = 1 /\ s_last = None /\ s_songlist = <<>>
    /\ ScanAtRest /\ PureAtRest /\ MatchAtRest

\* lines 22-26: an entry with the name of the last song is skipped
SonglistSkip ==
    /\ s_i >= 1 /\ s_i <= Len(s_found)
    /\ LET song_name == replace(s_found[s_i][1], ".mp3")
       IN  /\ s_last = <<song_name>>
           /\ s_i' = s_i + 1
           /\ UNCHANGED <<s_found, s_last, s_songlist>>
    /\ UNCHANGED <<scanVars, pureVars, matchVars>>

\* lines 22-40: an entry is rendered and appended
SonglistAppend ==
    /\ s_i >= 1 /\ s_i <= Len(s_found)
    /\ LET song_name == replace(s_found[s_i][1], ".mp3")
           off == s_found[s_i][3]
       IN  /\ s_last # <<song_name>>
           /\ s_songlist' = Append(s_songlist,
                  [time |-> render_time(off), song_name |-> song_name,
                   offset |-> off])
           /\ s_last' = <<song_name>>
           /\ s_i' = s_i + 1
           /\ UNCHANGED s_found
    /\ UNCHANGED <<scanVars, pureVars, matchVars>>

NextSongs == SonglistSkip \/ SonglistAppend

SpecSongs == InitSongs /\ [][NextSongs]_vars

\* C10: two lines rendered from different offsets below one day carry
\* different timestamp strings.
C10_TimestampIdentifiesOffset ==
    \A i, j \in 1..Len(s_songlist) :
        ( /\ s_songlist[i].offset # s_songlist[j].offset
          /\ s_songlist[i].offset < 86400
          /\ s_songlist[j].offset < 86400 )
        => s_songlist[i].time # s_songlist[j].time

----------------------------------------------------------------------------
(* correlate: the scan of the source in windows.                           *)

MaxWindows == 3

\* the source as the fingerprint provider may return it for a window: too
\* short for any sweep, and two full windows
SourceShort == Tuple(Gen(25, 1, 2))
SourceA == Tuple(Gen(180, 1, 17))
SourceB == Tuple(Gen(175, 0, 7))
SourceFPs == {SourceShort, SourceA, SourceB}

\* the reference files of fingerprints_dir
RefPath(name) == <<"fingerprints/", name, ".fpcalc">>
RefSkipped == <<RefPath("r20"), Tuple(Gen(20, 2, 5))>>
RefShort == <<RefPath("r25"), Tuple(Gen(25, 1, 2))>>
RefA == <<RefPath("ra"), SliceFrom(SourceA, 10)>>
RefC == <<RefPath("rc"), SliceTo(SourceA, 170)>>
RefCatalog == {RefSkipped, RefShort, RefA, RefC}
MaxRefs == 2

\* get_fingerprints: the files of the directory, each once
RefLists ==
    { l \in UNION { [1..n -> RefCatalog] : n \in 0..MaxRefs } :
        \A i, j \in 1..Len(l) : i # j => l[i] # l[j] }

\* get_audio_duration: around the window length, with and without a remainder
Durations ==
    { sample_time + correlate_step * w + e : w \in 0..(MaxWindows - 1), e \in {-1, 0} }

\* the thresholds of the call at line 196
match_threshold == <<3, 5>>
match_min_consistent_offsets == 1
match_max_offset_deviation == 5

\* get_fingerprint(short_clip_fp_path)
get_fingerprint(entry) == entry[2]

\* the name correlate stores for a reference path (line 200)
song_name_of(path) == replace(replace(path, "fingerprints/"), ".fpcalc")

\* line 176: offset is in range(0, duration - window + 1, step)
in_range(off, dur) == off < dur - sample_time + 1

\* line 190
span_to_use_of(source_fp, short_fp) ==
    Min(span, Min(Len(source_fp), Len(short_fp)) - 1)

\* lines 188-192: the pair is skipped
skips(source_fp, short_fp) ==
    \/ Len(short_fp) = 0 \/ Len(source_fp) = 0
    \/ span_to_use_of(source_fp, short_fp) < min_overlap

InitScan ==
    /\ pc = "window"
    /\ duration \in Durations
    /\ fingerprints \in RefLists
    /\ offset = 0
    /\ source_fingerprint = <<>> /\ ref_i = 0
    /\ found_songs = <<>>
    /\ corr = <<>> /\ corr_scores = <<>> /\ max_corr = <<>>
    /\ last = "start" /\ visited = <<>> /\ requests = <<>>
    /\ PureAtRest /\ MatchAtRest /\ SongsAtRest

\* lines 176-185: calculate_fingerprint raises; the window is skipped
RequestFails ==
    /\ pc = "window" /\ in_range(offset, duration)
    /\ visited' = Append(visited, offset)
    /\ requests' = Append(requests, [offset |-> offset, failed |-> TRUE, fp |-> <<>>])
    /\ offset' = offset + correlate_step
    /\ last' = "failed"
    /\ UNCHANGED <<pc, duration, fingerprints, source_fingerprint, ref_i,
                   found_songs, corr, corr_scores, max_corr>>
    /\ UNCHANGED <<pureVars, matchVars, songVars>>

\* lines 176-181: calculate_fingerprint returns the window's fingerprint
RequestSucceeds ==
    /\ pc = "window" /\ in_range(offset, duration)
    /\ \E fp \in SourceFPs :
          /\ source_fingerprint' = fp
          /\ requests' = Append(requests, [offset |-> offset, failed |-> FALSE, fp |-> fp])
    /\ visited' = Append(visited, offset)
    /\ ref_i' = 1
    /\ pc' = "refs"
    /\ last' = "fingerprinted"
    /\ UNCHANGED <<duration, fingerprints, offset, found_songs, corr, corr_scores, max_corr>>
    /\ UNCHANGED <<pureVars, matchVars, songVars>>

\* line 203: the window loop is exhausted
Return ==
    /\ pc = "window" /\ ~in_range(offset, duration)
    /\ pc' = "done"
    /\ last' = "returned"
    /\ UNCHANGED <<duration, fingerprints, offset, source_fingerprint, ref_i,
                   found_songs, corr, corr_scores, max_corr, visited, requests>>
    /\ UNCHANGED <<pureVars, matchVars, songVars>>

\* line 186: the reference loop is exhausted; on to the next window
NextWindow ==
    /\ pc = "refs" /\ ref_i > Len(fingerprints)
    /\ offset' = offset + correlate_step
    /\ pc' = "window"
    /\ last' = "next window"
    /\ UNCHANGED <<duration, fingerprints, source_fingerprint, ref_i,
                   found_songs, corr, corr_scores, max_corr, visited, requests>>
    /\ UNCHANGED <<pureVars, matchVars, songVars>>

\* lines 187-192: an empty fingerprint or too small a span; the pair is skipped
SkipReference ==
    /\ pc = "refs" /\ ref_i <= Len(fingerprints)
    /\ skips(source_fingerprint, get_fingerprint(fingerprints[ref_i]))
    /\ ref_i' = ref_i + 1
    /\ last' = "skipped"
    /\ UNCHANGED <<pc, duration, fingerprints, offset, source_fingerprint,
                   found_songs, corr, corr_scores, max_corr, visited, requests>>
    /\ UNCHANGED <<pureVars, matchVars, songVars>>

\* lines 187-195: the sweep of the pair, its offsets and the zip
Sweep ==
    /\ pc = "refs" /\ ref_i <= Len(fingerprints)
    /\ LET short_fingerprint == get_fingerprint(fingerprints[ref_i])
           span_to_use == span_to_use_of(source_fingerprint, short_fingerprint)
       IN  /\ ~skips(source_fingerprint, short_fingerprint)
           /\ IF compare_raises(source_fingerprint, short_fingerprint, span_to_use)
              THEN /\ pc' = "aborted"
                   /\ UNCHANGED <<corr, corr_scores>>
              ELSE LET c == compare(source_fingerprint, short_fingerprint,
                                    span_to_use, correlate_step)
                   IN  /\ corr' = c
                       /\ corr_scores' = zip(c, sweep_offsets(span_to_use, correlate_step))
                       /\ pc' = "match"
    /\ last' = "swept"
    /\ UNCHANGED <<duration, fingerprints, offset, source_fingerprint, ref_i,
                   found_songs, max_corr, visited, requests>>
    /\ UNCHANGED <<pureVars, matchVars, songVars>>

\* line 196: is_match compares a None with the threshold; the TypeError is
\* caught nowhere and ends correlate
IsMatchRaises ==
    /\ pc = "match"
    /\ raises_TypeError(corr_scores)
    /\ pc' = "aborted"
    /\ last' = "raised"
    /\ UNCHANGED <<duration, fingerprints, offset, source_fingerprint, ref_i,
                   found_songs, corr, corr_scores, max_corr, visited, requests>>
    /\ UNCHANGED <<pureVars, matchVars, songVars>>

\* lines 196-200: a match; its best score is recorded
MatchFound ==
    /\ pc = "match"
    /\ ~raises_TypeError(corr_scores)
    /\ is_match(corr_scores, match_threshold, match_min_consistent_offsets,
                match_max_offset_deviation)
    /\ LET mc == get_max_corr(corr)
           best == corr[mc[1] + 1]
       IN  /\ max_corr' = mc
           /\ found_songs' = Append(found_songs,
                  <<song_name_of(fingerprints[ref_i][1]), <<100 * best[1], best[2]>>, offset>>)
    /\ ref_i' = ref_i + 1
    /\ pc' = "refs"
    /\ last' = "match"
    /\ UNCHANGED <<duration, fingerprints, offset, source_fingerprint,
                   corr, corr_scores, visited, requests>>
    /\ UNCHANGED <<pureVars, matchVars, songVars>>

\* lines 196, 201-202: no match
NoMatch ==
    /\ pc = "match"
    /\ ~raises_TypeError(corr_scores)
    /\ ~is_match(corr_scores, match_threshold, match_min_consistent_offsets,
                 match_max_offset_deviation)
    /\ ref_i' = ref_i + 1
    /\ pc' = "refs"
    /\ last' = "no match"
    /\ UNCHANGED <<duration, fingerprints, offset, source_fingerprint,
                   found_songs, corr, corr_scores, max_corr, visited, requests>>
    /\ UNCHANGED <<pureVars, matchVars, songVars>>

Next ==
    \/ RequestFails
    \/ RequestSucceeds
    \/ Return
    \/ NextWindow
    \/ SkipReference
    \/ Sweep
    \/ IsMatchRaises
    \/ MatchFound
    \/ NoMatch

Init == InitScan

Spec == Init /\ [][Next]_vars

----------------------------------------------------------------------------
(* Claims about the scan (Spec). *)

\* the window offsets 0, window_step, ... that are <= duration - window
WindowOffsets ==
    LET n == IF duration < sample_time THEN 0
             ELSE (duration - sample_time) \div correlate_step + 1
    IN  [i \in 1..n |-> (i - 1) * correlate_step]

IsPrefix(s, t) == Len(s) <= Len(t) /\ \A i \in 1..Len(s) : s[i] = t[i]

\* the index in fingerprints of the reference a candidate names
RefIndexOf(candidate) ==
    CHOOSE i \in 1..Len(fingerprints) : song_name_of(fingerprints[i][1]) = candidate[1]

\* the windows whose request failed, and those whose request succeeded
FailedWindows == {requests[i].offset : i \in {j \in 1..Len(requests) : requests[j].failed}}
GoodWindows == {requests[i].offset : i \in {j \in 1..Len(requests) : ~requests[j].failed}}

\* a maximum of the present scores c is at least 0.60
MaxMeetsThreshold(c) == \E i \in 1..Len(c) : score_ge(c[i], match_threshold)

\* conf is 100 times a maximum of the present scores c
IsHundredTimesMax(conf, c) ==
    \E i \in 1..Len(c) :
        /\ \A j \in 1..Len(c) : ~score_gt(c[j], c[i])
        /\ conf = <<100 * c[i][1], c[i][2]>>

\* C8: for every pair that is not skipped, every offset of the sweep has an
\* overlap of at least min_overlap: no score of the sweep is absent, and no
\* absent score reaches is_match or get_max_corr.
C8_NoAbsentScore ==
    /\ (pc = "match" => \A i \in 1..Len(corr) : corr[i] # None)
    /\ pc # "aborted"

\* C9: a pair whose profile has no absent entry yields a candidate exactly
\* when the maximum of the profile is >= 0.60, with 100 times that maximum as
\* confidence; every candidate has a confidence in [60, 100] and the offset of
\* the window that produced it as timestamp.
C9_CandidateIffMax ==
    /\ (last \in {"match", "no match"}) =>
          /\ (last = "match") <=> MaxMeetsThreshold(corr)
          /\ (last = "match") =>
                LET cand == found_songs[Len(found_songs)]
                IN  /\ IsHundredTimesMax(cand[2], corr)
                    /\ cand[1] = song_name_of(fingerprints[ref_i - 1][1])
                    /\ cand[3] = offset
                    /\ corr[max_corr[1] + 1] = <<cand[2][1] \div 100, cand[2][2]>>
    /\ \A k \in 1..Len(found_songs) :
          /\ 60 * found_songs[k][2][2] <= found_songs[k][2][1]
          /\ found_songs[k][2][1] <= 100 * found_songs[k][2][2]
          /\ found_songs[k][3] \in GoodWindows

\* a candidate of confidence exactly 60, and a pair without a candidate
C9_Witness ==
    /\ last = "no match"
    /\ \E k \in 1..Len(found_songs) :
          60 * found_songs[k][2][2] = found_songs[k][2][1]

\* the candidates of the scan so far are in insertion order: by window offset,
\* and within a window by reference, one at most per (window, reference)
InInsertionOrder ==
    \A i, j \in 1..Len(found_songs) :
        i < j =>
            \/ found_songs[i][3] < found_songs[j][3]
            \/ /\ found_songs[i][3] = found_songs[j][3]
               /\ RefIndexOf(found_songs[i]) < RefIndexOf(found_songs[j])

\* C4 (state part): the windows taken are the offsets 0, window_step, ... that
\* are <= duration - window, in increasing order and each once: a prefix of
\* them while the scan runs, all of them when it has ended, whether correlate
\* returned or an exception left it.
WindowsInOrder ==
    /\ IsPrefix(visited, WindowOffsets)
    /\ pc \in {"done", "aborted"} => visited = WindowOffsets
    /\ InInsertionOrder

\* C4: scan visits exactly the window offsets 0, window_step, ... that are
\* <= duration - window, each once and in increasing order; the candidates
\* are in insertion order, one at most per (window, reference), and none is
\* removed or reordered afterwards.
C4_WindowsAndOrder ==
    /\ []WindowsInOrder
    /\ [][IsPrefix(found_songs, found_songs')]_vars

\* the candidates window w yields for the fingerprint fp: for each reference
\* in order that is not skipped, one if a maximum of its sweep is >= 0.60
RECURSIVE CandidatesFrom(_, _, _)
CandidatesFrom(w, fp, i) ==
    IF i > Len(fingerprints) THEN <<>>
    ELSE LET short == get_fingerprint(fingerprints[i])
             rest == CandidatesFrom(w, fp, i + 1)
         IN  IF skips(fp, short) THEN rest
             ELSE LET c == compare(fp, short, span_to_use_of(fp, short), correlate_step)
                      best == c[FirstMaxIndex(c) + 1]
                  IN  IF MaxMeetsThreshold(c)
                      THEN <<<<song_name_of(fingerprints[i][1]),
                               <<100 * best[1], best[2]>>, w>>>> \o rest
                      ELSE rest

\* the candidates of the requests from index i on, failed windows left out
RECURSIVE ExpectedFrom(_)
ExpectedFrom(i) ==
    IF i > Len(requests) THEN <<>>
    ELSE IF requests[i].failed THEN ExpectedFrom(i + 1)
         ELSE CandidatesFrom(requests[i].offset, requests[i].fp, 1) \o ExpectedFrom(i + 1)

\* C3: a scan in which requests fail still ends normally, having visited
\* every window offset, with no candidate of a failing window and, for every
\* other window, the candidates that window yields.
C3_PartialFailure ==
    (FailedWindows # {} /\ pc \in {"done", "aborted"}) =>
        /\ pc = "done"
        /\ visited = WindowOffsets
        /\ \A k \in 1..Len(found_songs) : found_songs[k][3] \notin FailedWindows
        /\ found_songs = ExpectedFrom(1)

====
